---------------------------- MODULE Spec2Model ----------------------------
(***************************************************************************)
(* Model of pynet.augmentation.spatial: the transform entry points affine, *)
(* flip and deformation, and random_generator, running on the process-wide *)
(* numpy random source (np.random.seed / np.random.uniform / randint /     *)
(* lognormal).  Each np.random call is one atomic step of the calling      *)
(* thread, so that the reseed and the draw of one call can be interleaved   *)
(* with those of a call running in another thread.                         *)
(***************************************************************************)
EXTENDS Integers, Sequences, FiniteSets, TLC

(***************************************************************************)
(* Bounds of the model.                                                    *)
(***************************************************************************)
MaxRank == 4      \* arrays of rank 1..MaxRank
MaxDim == 2       \* every extent is in 1..MaxDim
MaxCells == 2     \* arrays of at most MaxCells cells
MaxSeed == 1      \* seeds 0..MaxSeed, and no seed
RngMod == 2       \* number of states of the random source
MaxMagnitude == 1 \* rotation / translation magnitudes 1..MaxMagnitude
MaxChain == 2     \* a result is fed back as input at most MaxChain - 1 times

(***************************************************************************)
(* Program constants.                                                      *)
(***************************************************************************)
NoSeed == -1      \* seed=None
NoAxis == -100    \* axis=None
MinOrder == 0     \* spline orders supported by map_coordinates
MaxOrder == 5
DefaultOrder == 3
ZoomTenths == 2   \* zoom=0.2, in tenths

Threads == {"main", "other"}
MainThread == "main"

(***************************************************************************)
(* Arrays.  A buffer owns the cells; an array object is a view of a buffer *)
(* (numpy: a base buffer, a shape, and per axis the sign of the stride).   *)
(* Axis a of the code is position a + 1 of a shape or index tuple.         *)
(***************************************************************************)
RECURSIVE Prod(_)
Prod(s) == IF s = <<>> THEN 1 ELSE s[1] * Prod(Tail(s))

RECURSIVE Tuples(_, _)
Tuples(n, S) ==
    IF n = 0 THEN {<<>>}
    ELSE {Append(p, x) : p \in Tuples(n - 1, S), x \in S}

Shapes ==
    {s \in UNION {Tuples(n, 1..MaxDim) : n \in 1..MaxRank} : Prod(s) <= MaxCells}

\* the index tuples of an array of the given shape
RECURSIVE Indices(_)
Indices(shape) ==
    IF shape = <<>> THEN {<<>>}
    ELSE {<<i>> \o r : i \in 0..(shape[1] - 1), r \in Indices(Tail(shape))}

\* row-major offset of an index tuple
RECURSIVE Flat(_, _)
Flat(shape, idx) ==
    IF shape = <<>> THEN 0
    ELSE idx[1] * Prod(Tail(shape)) + Flat(Tail(shape), Tail(idx))

\* the input arrays: every cell holds a different value
Ramp(shape) == [idx \in Indices(shape) |-> 1 + Flat(shape, idx)]

NoInterp == <<>>
NoArr == [buf |-> 0, shape |-> <<>>, rev |-> <<>>]

NewBuffer(shape, cells, interp) ==
    [shape |-> shape, cells |-> cells, interp |-> interp]

WholeView(b, shape) ==
    [buf |-> b, shape |-> shape, rev |-> [k \in 1..Len(shape) |-> FALSE]]

\* the index of the buffer cell that index idx of view a denotes
BufIndex(a, idx) ==
    [k \in 1..Len(a.shape) |->
        IF a.rev[k] THEN a.shape[k] - 1 - idx[k] ELSE idx[k]]

\* the values array object a shows, read through heap h
Values(h, a) == [idx \in Indices(a.shape) |-> h[a.buf].cells[BufIndex(a, idx)]]

(***************************************************************************)
(* The process-wide random source.                                         *)
(***************************************************************************)
RngStates == 0..(RngMod - 1)

NextRng(s) == (s + 1) % RngMod

\* np.random.seed(seed): a seed fixes the state; None takes OS entropy
SeedStates(seed) ==
    IF seed = NoSeed THEN RngStates ELSE {(seed + 1) % RngMod}

\* the n states a draw of n values goes through, starting after state s
RECURSIVE Stream(_, _)
Stream(s, n) ==
    IF n = 0 THEN <<>> ELSE <<NextRng(s)>> \o Stream(NextRng(s), n - 1)

AfterDraw(s, n) == IF n = 0 THEN s ELSE Stream(s, n)[n]


\* the draw added to high instead of low
Uniform_FromHigh(low, high, s) == <<high * RngMod + (high - low) * s, RngMod>>

\* one value of np.random.uniform(low, high), as the fraction <<num, den>>
Uniform(low, high, s) == <<low * RngMod + (high - low) * s, RngMod>>

\* one value of np.random.randint(low=0, high)
Randint(high, s) == s % high

\* one value of np.random.lognormal(mean=0, sigma=1): a positive number
Lognormal(s) == s + 1

\* one value of a field of the random field generator: values of both
\* signs, never zero, the negative ones the larger in magnitude
Normal(s) == 1 - 3 * s

\* the fraction n / d, d # 0, with a positive denominator
Quot(n, d) == IF d < 0 THEN <<0 - n, 0 - d>> ELSE <<n, d>>

(***************************************************************************)
(* The calls.  Every call is a record with the same fields; a field an     *)
(* operation does not take holds a placeholder.                            *)
(***************************************************************************)
Seeds == 0..MaxSeed
SeedArgs == Seeds \cup {NoSeed}
DistArgs == {"uniform", "lognormal", "bogus"}
OrderArgs == {MinOrder - 1, MinOrder, DefaultOrder, MaxOrder, MaxOrder + 1}
AxisArgs == {NoAxis} \cup ((0 - MaxRank - 1)..MaxRank)
Magnitudes == 1..MaxMagnitude
\* a rotation or translation argument: the scalar v, written <<v>>
RangeArgs == {<<m>> : m \in Magnitudes}
IntervalArgs == {<<0 - m, m>> : m \in Magnitudes} \cup {<<0, m>> : m \in Magnitudes}
SizeArgs == 0..MaxDim
DisplacementArgs == 0..MaxMagnitude

NoCall ==
    [op |-> "none", shape |-> <<>>, axis |-> NoAxis, seed |-> NoSeed,
     order |-> DefaultOrder, dist |-> "uniform", rotation |-> <<>>,
     translation |-> <<>>, interval |-> <<>>, size |-> 0, max_displacement |-> 0]

AffineCalls ==
    {[NoCall EXCEPT !.op = "affine", !.shape = sh, !.rotation = r,
                    !.translation = tr, !.order = o, !.dist = d, !.seed = sd] :
        sh \in Shapes, r \in RangeArgs, tr \in RangeArgs, o \in OrderArgs,
        d \in DistArgs, sd \in SeedArgs}

FlipCalls ==
    {[NoCall EXCEPT !.op = "flip", !.shape = sh, !.axis = a, !.seed = sd] :
        sh \in Shapes, a \in AxisArgs, sd \in SeedArgs}

DeformationCalls ==
    {[NoCall EXCEPT !.op = "deformation", !.shape = sh, !.max_displacement = m,
                    !.order = o, !.seed = sd] :
        sh \in Shapes, m \in DisplacementArgs, o \in OrderArgs, sd \in SeedArgs}

GeneratorCalls ==
    {[NoCall EXCEPT !.op = "random_generator", !.interval = i, !.size = n,
                    !.dist = d, !.seed = sd] :
        i \in IntervalArgs, n \in SizeArgs, d \in DistArgs, sd \in SeedArgs}

Calls == AffineCalls \cup FlipCalls \cup DeformationCalls \cup GeneratorCalls

\* the calls made around the call under study, by either thread
Background ==
    {c \in GeneratorCalls : c.interval = <<0, 1>> /\ c.size = 1 /\ c.dist = "uniform"}

(***************************************************************************)
(* Results.                                                                *)
(***************************************************************************)
NoRet == [kind |-> "none", err |-> "", vals |-> <<>>, arr |-> NoArr]
Raise(e) == [NoRet EXCEPT !.kind = "error", !.err = e]
ReturnValues(v) == [NoRet EXCEPT !.kind = "values", !.vals = v]
ReturnArray(a) == [NoRet EXCEPT !.kind = "array", !.arr = a]

UnsupportedDistribution == "ValueError: Unsupported sampling distribution."
SplineOrderError == "RuntimeError: spline order not supported"
EulerAnglesError == "ValueError: Expected angles to have the width of seq"
AxisError == "AxisError: axis is out of bounds for array"
TransposeError == "ValueError: axes don't match array"

NoLocals == [rotations |-> <<>>, translations |-> <<>>, zooms |-> <<>>,
             sign |-> <<>>, flows |-> <<>>]

\* what a caller can observe of a result: the error, the values, or the
\* shape and contents of the returned array
Observed(h, r) ==
    [kind |-> r.kind, err |-> r.err, vals |-> r.vals, shape |-> r.arr.shape,
     cells |-> IF r.kind = "array" THEN Values(h, r.arr) ELSE <<>>,
     interp |-> IF r.kind = "array" THEN h[r.arr.buf].interp ELSE NoInterp]

NoObserved == Observed(<<>>, NoRet)

(***************************************************************************)
(* The losses of examples/vae/vae_conditional_2.py: a DecodeLoss and the   *)
(* VAELoss and ClassificationLoss it holds.  Each has a layer_outputs      *)
(* attribute, None after construction, which the trainer assigns between   *)
(* calls.                                                                  *)
(***************************************************************************)
DecodeLossObj == "decode"
AutoEncode == "auto_encode"
Classification == "classification"
SubLosses == {AutoEncode, Classification}
Losses == {DecodeLossObj} \cup SubLosses

\* the entries a sub-loss reads from layer_outputs
OutputKeys == {"z_mu", "z_var", "logits"}
VAEKeys == {"z_mu", "z_var"}
ClassificationKeys == {"logits"}

\* the distinct dictionaries the model may hand over, told apart by identity
MaxOutputs == 2

\* a value of layer_outputs: None, or dictionary number id holding keys
None == [isNone |-> TRUE, id |-> 0, keys |-> {}]
Dict(i, ks) == [isNone |-> FALSE, id |-> i, keys |-> ks]
LayerOutputs == {None} \cup {Dict(i, ks) : i \in 1..MaxOutputs, ks \in SUBSET OutputKeys}

MissingLayerOutputs ==
    "ValueError: The model needs to return the latent space distribution parameters z_mu, z_var."
MissingKey == "KeyError"

\* what a call of a loss gave: nothing yet, a loss value, or an exception
\* raised in the __call__ of the loss named by
NoOutcome == [kind |-> "none", err |-> "", by |-> ""]
LossValue(o) == [kind |-> "loss", err |-> "", by |-> o]
LossRaise(e, o) == [kind |-> "error", err |-> e, by |-> o]

(***************************************************************************)
(* State.                                                                  *)
(***************************************************************************)
VARIABLES
    rng,        \* the state of the process-wide random source
    threads,    \* the threads of the process
    subject,    \* the call under study, made by the main thread
    pc,         \* per thread: where it is in its call
    cur,        \* per thread: the arguments of its call
    phase,      \* per thread: which draw of the call random_generator or
                \* the random field generator is serving
    loc,        \* per thread: the local variables of its call
    heap,       \* per thread: the buffers of the arrays it holds
    inp,        \* per thread: the array object passed as arr
    ret,        \* per thread: what the call returned or raised
    chain,      \* per thread: 1 + the number of times the result was fed back
    log,        \* per thread: the reseeds and draws of the call, in order
    entry,      \* per thread: the values the input array held when the call
                \* started, and whether the reference run had been made
    overlapped, \* a step of the other thread fell inside the main thread's call
    written,    \* the caller wrote to the array the main thread's call returned
    ref,        \* what the first undisturbed run of the subject returned
    layer_outputs, \* per loss object: its layer_outputs attribute
    called,     \* the loss object whose __call__ the trainer invoked
    lossPc,     \* where that call is
    before,     \* per loss object: its layer_outputs when that call started
    entered,    \* the sub-losses whose __call__ that call has entered
    outcome     \* what that call returned or raised

augmentationVars ==
    <<rng, threads, subject, pc, cur, phase, loc, heap, inp, ret, chain, log, entry,
      overlapped, written, ref>>

lossVars == <<layer_outputs, called, lossPc, before, entered, outcome>>

vars == <<augmentationVars, lossVars>>

\* the losses as constructed, no call made
Constructed ==
    /\ layer_outputs = [o \in Losses |-> None]
    /\ called = ""
    /\ lossPc = "idle"
    /\ before = [o \in Losses |-> None]
    /\ entered = {}
    /\ outcome = NoOutcome

NoEntry == [input |-> <<>>, rerun |-> FALSE]

Start ==
    /\ rng \in RngStates
    /\ subject \in Calls
    /\ pc = [t \in Threads |-> "idle"]
    /\ cur = [t \in Threads |-> NoCall]
    /\ phase = [t \in Threads |-> "top"]
    /\ loc = [t \in Threads |-> NoLocals]
    /\ heap = [t \in Threads |-> <<>>]
    /\ inp = [t \in Threads |-> NoArr]
    /\ ret = [t \in Threads |-> NoRet]
    /\ chain = [t \in Threads |-> 0]
    /\ log = [t \in Threads |-> <<>>]
    /\ entry = [t \in Threads |-> NoEntry]
    /\ overlapped = FALSE
    /\ written = FALSE
    /\ ref = NoObserved

\* one thread making call after call
Init ==
    /\ Start
    /\ Constructed
    /\ threads = {MainThread}

Running(t) == pc[t] \notin {"idle", "done"}

\* a step of thread t, seen from the main thread's call
Overlap(t) == overlapped \/ (t # MainThread /\ Running(MainThread))

\* the first label of each operation
EntryPoint(op) ==
    CASE op = "affine" -> "rg"
      [] op = "random_generator" -> "rg"
      [] op = "flip" -> "flip"
      [] op = "deformation" -> "grf_seed"

EntryPhase(op) ==
    CASE op = "affine" -> "rotation"
      [] op = "deformation" -> "x"
      [] OTHER -> "top"

SeedEvent(seed) == [ev |-> "seed", x |-> seed]
DrawEvent(s) == [ev |-> "draw", x |-> s]

\* thread t returns or raises r; the first undisturbed run of a seeded
\* subject is kept as the reference
Complete(t, r, h) ==
    /\ ret' = [ret EXCEPT ![t] = r]
    /\ pc' = [pc EXCEPT ![t] = "done"]
    /\ ref' = IF /\ t = MainThread
                 /\ cur[t] = subject
                 /\ cur[t].seed # NoSeed
                 /\ chain[t] = 1
                 /\ ~overlapped
                 /\ ref = NoObserved
              THEN Observed(h, r)
              ELSE ref

\* with one thread, it makes the call under study and the calls around it;
\* with two, the main thread makes the call under study and the other
\* thread the calls around it, each with a seed
Callable(t) ==
    IF threads = {MainThread} THEN {subject} \cup Background
    ELSE IF t = MainThread THEN {subject}
    ELSE {c \in Background : c.seed # NoSeed}

\* a thread calls an operation on a fresh input array
Call(t) ==
    /\ t \in threads
    /\ pc[t] = "idle"
    /\ \E c \in Callable(t) :
        /\ cur' = [cur EXCEPT ![t] = c]
        /\ pc' = [pc EXCEPT ![t] = EntryPoint(c.op)]
        /\ phase' = [phase EXCEPT ![t] = EntryPhase(c.op)]
        /\ heap' = [heap EXCEPT ![t] =
                      IF c.shape = <<>> THEN <<>>
                      ELSE <<NewBuffer(c.shape, Ramp(c.shape), NoInterp)>>]
        /\ inp' = [inp EXCEPT ![t] =
                      IF c.shape = <<>> THEN NoArr ELSE WholeView(1, c.shape)]
        /\ entry' = [entry EXCEPT ![t] =
                      [input |-> IF c.shape = <<>> THEN <<>> ELSE Ramp(c.shape),
                       rerun |-> c = subject /\ ref # NoObserved]]
    /\ loc' = [loc EXCEPT ![t] = NoLocals]
    /\ ret' = [ret EXCEPT ![t] = NoRet]
    /\ chain' = [chain EXCEPT ![t] = 1]
    /\ log' = [log EXCEPT ![t] = <<>>]
    /\ overlapped' = IF t = MainThread THEN FALSE ELSE Overlap(t)
    /\ written' = IF t = MainThread THEN FALSE ELSE written
    /\ UNCHANGED <<rng, threads, subject, ref>>
    /\ UNCHANGED lossVars

(***************************************************************************)
(* random_generator, called on its own or by affine for the rotations and  *)
(* then for the translations.                                              *)
(***************************************************************************)
\* utils.interval: a scalar v stands for the symmetric interval (-v, v)
interval(x) == IF Len(x) = 1 THEN <<0 - x[1], x[1]>> ELSE x

\* the interval and size arguments of the running random_generator call
RgInterval(t) ==
    CASE phase[t] = "rotation" -> interval(cur[t].rotation)
      [] phase[t] = "translation" -> interval(cur[t].translation)
      [] OTHER -> cur[t].interval

RgSize(t) == IF phase[t] = "top" THEN cur[t].size ELSE Len(cur[t].shape)

\* np.random.seed(seed) by thread t
Reseed(t, seed) ==
    /\ rng' \in SeedStates(seed)
    /\ log' = [log EXCEPT ![t] = Append(@, SeedEvent(seed))]

\* thread t draws n values from the random source
Draw(t, n) ==
    /\ rng' = AfterDraw(rng, n)
    /\ log' = [log EXCEPT ![t] = Append(@, DrawEvent(rng))]

\* np.random.seed() called without the seed
RgSeedArg_Dropped(t) == NoSeed

\* the seed the two branches of random_generator pass to np.random.seed
RgSeedArg(t) == cur[t].seed

\* random_generator returns values v to its caller
RgReturn(t, v) ==
    CASE phase[t] = "top" ->
            /\ Complete(t, ReturnValues(v), heap[t])
            /\ UNCHANGED <<phase, loc>>
      [] phase[t] = "rotation" ->
            /\ loc' = [loc EXCEPT ![t].rotations = v]
            /\ phase' = [phase EXCEPT ![t] = "translation"]
            /\ pc' = [pc EXCEPT ![t] = "rg"]
            /\ UNCHANGED <<ret, ref>>
      [] phase[t] = "translation" ->
            /\ loc' = [loc EXCEPT ![t].translations = v]
            /\ phase' = [phase EXCEPT ![t] = "top"]
            /\ pc' = [pc EXCEPT ![t] = "af_seed"]
            /\ UNCHANGED <<ret, ref>>

\* no else branch: any other name runs the last branch
RgSupported_Default(dist) == TRUE

RgSupported(dist) == dist \in {"uniform", "lognormal"}

\* lines 175-176 and 183-184: the branch on dist and its np.random.seed
RgSeed(t) ==
    /\ pc[t] = "rg"
    /\ RgSupported(cur[t].dist)
    /\ Reseed(t, RgSeedArg(t))
    /\ pc' = [pc EXCEPT ![t] =
                 IF cur[t].dist = "uniform" THEN "rg_uniform" ELSE "rg_sign"]
    /\ overlapped' = Overlap(t)
    /\ UNCHANGED <<threads, subject, cur, phase, loc, heap, inp, ret, chain, entry,
                   written, ref>>
    /\ UNCHANGED lossVars

\* np.random.seed(seed) made before the branch on dist
RgRaise_AfterSeed(t) ==
    /\ pc[t] = "rg"
    /\ ~RgSupported(cur[t].dist)
    /\ Reseed(t, RgSeedArg(t))
    /\ Complete(t, Raise(UnsupportedDistribution), heap[t])
    /\ overlapped' = Overlap(t)
    /\ UNCHANGED <<threads, subject, cur, phase, loc, heap, inp, chain, entry,
                   written>>
    /\ UNCHANGED lossVars

\* lines 191-192: any other dist raises, also through affine
RgRaise(t) ==
    /\ pc[t] = "rg"
    /\ ~RgSupported(cur[t].dist)
    /\ Complete(t, Raise(UnsupportedDistribution), heap[t])
    /\ overlapped' = Overlap(t)
    /\ UNCHANGED <<rng, threads, subject, cur, phase, loc, heap, inp, chain, log, entry,
                   written>>
    /\ UNCHANGED lossVars

\* lines 177-178
RgUniform(t) ==
    /\ pc[t] = "rg_uniform"
    /\ LET n == RgSize(t)
           i == RgInterval(t)
           st == Stream(rng, n)
       IN  /\ Draw(t, n)
           /\ RgReturn(t, [k \in 1..n |-> Uniform(i[1], i[2], st[k])])
    /\ overlapped' = Overlap(t)
    /\ UNCHANGED <<threads, subject, cur, heap, inp, chain, entry, written>>
    /\ UNCHANGED lossVars

\* lines 185-186 (np.float is the float alias of the numpy of the module)
RgSign(t) ==
    /\ pc[t] = "rg_sign"
    /\ LET n == RgSize(t)
           st == Stream(rng, n)
       IN  /\ Draw(t, n)
           /\ loc' = [loc EXCEPT ![t].sign =
                         [k \in 1..n |-> Randint(2, st[k]) * 2 - 1]]
    /\ pc' = [pc EXCEPT ![t] = "rg_seed2"]
    /\ overlapped' = Overlap(t)
    /\ UNCHANGED <<threads, subject, cur, phase, heap, inp, ret, chain, entry, written,
                   ref>>
    /\ UNCHANGED lossVars

\* line 187 left out: the magnitudes drawn right after the signs
RgSeed2_Skipped(t) ==
    /\ pc[t] = "rg_seed2"
    /\ pc' = [pc EXCEPT ![t] = "rg_lognormal"]
    /\ overlapped' = Overlap(t)
    /\ UNCHANGED <<rng, threads, subject, cur, phase, loc, heap, inp, ret, chain, log,
                   entry, written, ref>>
    /\ UNCHANGED lossVars

\* line 187
RgSeed2(t) ==
    /\ pc[t] = "rg_seed2"
    /\ Reseed(t, RgSeedArg(t))
    /\ pc' = [pc EXCEPT ![t] = "rg_lognormal"]
    /\ overlapped' = Overlap(t)
    /\ UNCHANGED <<threads, subject, cur, phase, loc, heap, inp, ret, chain, entry,
                   written, ref>>
    /\ UNCHANGED lossVars

\* line 190 with interval[0] in the place of interval[1]
RgLognormal_Low(t) ==
    /\ pc[t] = "rg_lognormal"
    /\ LET n == RgSize(t)
           i == RgInterval(t)
           st == Stream(rng, n)
           sg == loc[t].sign
       IN  /\ Draw(t, n)
           /\ RgReturn(t, [k \in 1..n |->
                             <<2 * Lognormal(st[k]) * sg[k] * i[1], 25>>])
    /\ overlapped' = Overlap(t)
    /\ UNCHANGED <<threads, subject, cur, heap, inp, chain, entry, written>>
    /\ UNCHANGED lossVars

\* lines 188-190: the draw, divided by 12.5 = 25/2 and multiplied by
\* sign * interval[1]; each value is the fraction <<num, den>>
RgLognormal(t) ==
    /\ pc[t] = "rg_lognormal"
    /\ LET n == RgSize(t)
           i == RgInterval(t)
           st == Stream(rng, n)
           sg == loc[t].sign
       IN  /\ Draw(t, n)
           /\ RgReturn(t, [k \in 1..n |->
                             <<2 * Lognormal(st[k]) * sg[k] * i[2], 25>>])
    /\ overlapped' = Overlap(t)
    /\ UNCHANGED <<threads, subject, cur, heap, inp, chain, entry, written>>
    /\ UNCHANGED lossVars

(***************************************************************************)
(* The resampler and the array library.                                    *)
(***************************************************************************)
\* scipy.ndimage.map_coordinates accepts the spline orders 0..5
OrderSupported(order) == order >= MinOrder /\ order <= MaxOrder

\* a rotation built from two angles as well as from three
EulerAccepts_TwoOrThree(angles) == Len(angles) \in {2, 3}

\* scipy Rotation.from_euler("xyz", angles): one angle per axis of the
\* sequence, so exactly three
EulerAccepts(angles) == Len(angles) = 3

from_euler(angles) == [seq |-> "xyz", angles |-> angles]

\* transform.compose(T, R, Z): the affine matrix of a translation, a
\* rotation and a zoom
compose(T, R, Z) == [translation |-> T, rotation |-> R, zoom |-> Z]

\* transform.affine_flow(affine, shape): the dense coordinate field, of
\* shape (ndim, *shape)
affine_flow(affine, shape) ==
    [known |-> FALSE, affine |-> affine, shape |-> <<Len(shape)>> \o shape,
     at |-> <<>>]

\* the coordinates c, one fraction per axis, are a grid point of the array
OnGrid(shape, c) ==
    \A d \in 1..Len(shape) :
        /\ c[d][1] % c[d][2] = 0
        /\ c[d][1] \div c[d][2] >= 0
        /\ c[d][1] \div c[d][2] < shape[d]

GridIndex(c) == [d \in 1..Len(c) |-> c[d][1] \div c[d][2]]

\* map_coordinates(arr, locs, order, cval=0): a new buffer holding, at each
\* index, the spline interpolation of arr at the coordinates locs gives it:
\* the value of arr itself where the coordinates are a grid point of arr
map_coordinates(h, a, locs, order) ==
    NewBuffer(a.shape,
              [idx \in Indices(a.shape) |->
                  IF locs.known /\ OnGrid(a.shape, locs.at[idx])
                  THEN Values(h, a)[GridIndex(locs.at[idx])]
                  ELSE idx],
              <<order, Values(h, a), locs>>)

ValidAxis(a, axis) == axis >= 0 - Len(a.shape) /\ axis < Len(a.shape)

NormalizedAxis(a, axis) == IF axis < 0 THEN axis + Len(a.shape) ELSE axis

\* the reversal made along the first axis, whatever axis is asked for
np_flip_FirstAxis(a, axis) ==
    IF ValidAxis(a, axis)
    THEN ReturnArray([a EXCEPT !.rev[1] = ~@])
    ELSE Raise(AxisError)

\* np.flip(arr, axis): the same buffer, read backwards along the axis
np_flip(a, axis) ==
    IF ValidAxis(a, axis)
    THEN ReturnArray([a EXCEPT !.rev[NormalizedAxis(a, axis) + 1] = ~@])
    ELSE Raise(AxisError)

(***************************************************************************)
(* affine, after its two random_generator calls.                           *)
(***************************************************************************)
\* one value of np.random.uniform(low=1 - zoom, high=1 + zoom)
ZoomValue(s) ==
    <<(10 - ZoomTenths) * RngMod + 2 * ZoomTenths * s, 10 * RngMod>>

\* line 63
AfSeed(t) ==
    /\ pc[t] = "af_seed"
    /\ Reseed(t, cur[t].seed)
    /\ pc' = [pc EXCEPT ![t] = "af_zoom"]
    /\ overlapped' = Overlap(t)
    /\ UNCHANGED <<threads, subject, cur, phase, loc, heap, inp, ret, chain, entry,
                   written, ref>>
    /\ UNCHANGED lossVars

\* lines 64-65
AfZoom(t) ==
    /\ pc[t] = "af_zoom"
    /\ LET n == Len(cur[t].shape)
           st == Stream(rng, n)
       IN  /\ Draw(t, n)
           /\ loc' = [loc EXCEPT ![t].zooms = [k \in 1..n |-> ZoomValue(st[k])]]
    /\ pc' = [pc EXCEPT ![t] = "af_finish"]
    /\ overlapped' = Overlap(t)
    /\ UNCHANGED <<threads, subject, cur, phase, heap, inp, ret, chain, entry, written,
                   ref>>
    /\ UNCHANGED lossVars

\* line 74 without the reshape: the flat array map_coordinates returns
AffineOutcome_Flat(t) ==
    IF ~EulerAccepts(loc[t].rotations)
    THEN [ret |-> Raise(EulerAnglesError), heap |-> heap[t]]
    ELSE IF ~OrderSupported(cur[t].order)
    THEN [ret |-> Raise(SplineOrderError), heap |-> heap[t]]
    ELSE LET R == from_euler(loc[t].rotations)
             flow == affine_flow(compose(loc[t].translations, R, loc[t].zooms),
                                 inp[t].shape)
             out == map_coordinates(heap[t], inp[t], flow, cur[t].order)
         IN  [ret |-> ReturnArray(WholeView(Len(heap[t]) + 1,
                                            <<Prod(inp[t].shape)>>)),
              heap |-> Append(heap[t], out)]

\* line 73 with the order clamped to the supported range
AffineOutcome_Clamped(t) ==
    IF ~EulerAccepts(loc[t].rotations)
    THEN [ret |-> Raise(EulerAnglesError), heap |-> heap[t]]
    ELSE LET R == from_euler(loc[t].rotations)
             flow == affine_flow(compose(loc[t].translations, R, loc[t].zooms),
                                 inp[t].shape)
             order == IF cur[t].order < MinOrder THEN MinOrder
                      ELSE IF cur[t].order > MaxOrder THEN MaxOrder
                      ELSE cur[t].order
             out == map_coordinates(heap[t], inp[t], flow, order)
         IN  [ret |-> ReturnArray(WholeView(Len(heap[t]) + 1, inp[t].shape)),
              heap |-> Append(heap[t], out)]

\* what lines 66-74 return or raise, and the heap they leave
AffineOutcome(t) ==
    IF ~EulerAccepts(loc[t].rotations)
    THEN [ret |-> Raise(EulerAnglesError), heap |-> heap[t]]
    ELSE IF ~OrderSupported(cur[t].order)
    THEN [ret |-> Raise(SplineOrderError), heap |-> heap[t]]
    ELSE LET R == from_euler(loc[t].rotations)
             flow == affine_flow(compose(loc[t].translations, R, loc[t].zooms),
                                 inp[t].shape)
             out == map_coordinates(heap[t], inp[t], flow, cur[t].order)
         IN  [ret |-> ReturnArray(WholeView(Len(heap[t]) + 1, inp[t].shape)),
              heap |-> Append(heap[t], out)]

\* lines 66-74: the rotation matrix, the flow, the resampling
AfFinish(t) ==
    /\ pc[t] = "af_finish"
    /\ LET o == AffineOutcome(t)
       IN  /\ heap' = [heap EXCEPT ![t] = o.heap]
           /\ Complete(t, o.ret, o.heap)
    /\ overlapped' = Overlap(t)
    /\ UNCHANGED <<rng, threads, subject, cur, phase, loc, inp, chain, log, entry,
                   written>>
    /\ UNCHANGED lossVars

(***************************************************************************)
(* flip                                                                    *)
(***************************************************************************)
\* np.random.seed() called without the seed
FlipSeed_Unseeded(t) ==
    /\ pc[t] = "flip"
    /\ cur[t].axis = NoAxis
    /\ Reseed(t, NoSeed)
    /\ pc' = [pc EXCEPT ![t] = "flip_draw"]
    /\ overlapped' = Overlap(t)
    /\ UNCHANGED <<threads, subject, cur, phase, loc, heap, inp, ret, chain, entry,
                   written, ref>>
    /\ UNCHANGED lossVars

\* lines 95-96
FlipSeed(t) ==
    /\ pc[t] = "flip"
    /\ cur[t].axis = NoAxis
    /\ Reseed(t, cur[t].seed)
    /\ pc' = [pc EXCEPT ![t] = "flip_draw"]
    /\ overlapped' = Overlap(t)
    /\ UNCHANGED <<threads, subject, cur, phase, loc, heap, inp, ret, chain, entry,
                   written, ref>>
    /\ UNCHANGED lossVars

\* lines 97-98
FlipDraw(t) ==
    /\ pc[t] = "flip_draw"
    /\ LET axis == Randint(Len(inp[t].shape), Stream(rng, 1)[1])
       IN  /\ Draw(t, 1)
           /\ Complete(t, np_flip(inp[t], axis), heap[t])
    /\ overlapped' = Overlap(t)
    /\ UNCHANGED <<threads, subject, cur, phase, loc, heap, inp, chain, entry, written>>
    /\ UNCHANGED lossVars

\* the reseed made before the test of axis
FlipExplicit_Reseeds(t) ==
    /\ pc[t] = "flip"
    /\ cur[t].axis # NoAxis
    /\ Reseed(t, cur[t].seed)
    /\ Complete(t, np_flip(inp[t], cur[t].axis), heap[t])
    /\ overlapped' = Overlap(t)
    /\ UNCHANGED <<threads, subject, cur, phase, loc, heap, inp, chain, entry,
                   written>>
    /\ UNCHANGED lossVars

\* line 98, with the axis given
FlipExplicit(t) ==
    /\ pc[t] = "flip"
    /\ cur[t].axis # NoAxis
    /\ Complete(t, np_flip(inp[t], cur[t].axis), heap[t])
    /\ overlapped' = Overlap(t)
    /\ UNCHANGED <<rng, threads, subject, cur, phase, loc, heap, inp, chain, log, entry,
                   written>>
    /\ UNCHANGED lossVars

(***************************************************************************)
(* deformation: three random fields over the first two axes, then the      *)
(* resampling.                                                             *)
(***************************************************************************)
\* kwargs never updated: the three fields generated with the same seed
FieldSeed_Same(seed, ph) == seed

\* lines 128, 133-134, 139-140: the seed each field is generated with
FieldSeed(seed, ph) ==
    IF seed = NoSeed THEN NoSeed
    ELSE CASE ph = "x" -> seed
           [] ph = "y" -> seed + 2
           [] ph = "z" -> seed + 4

\* arr.shape[:2]
FieldShape(shape) == SubSeq(shape, 1, IF Len(shape) < 2 THEN Len(shape) ELSE 2)

\* transform.gaussian_random_field: reseeds the random source with its seed
GrfSeed(t) ==
    /\ pc[t] = "grf_seed"
    /\ Reseed(t, FieldSeed(cur[t].seed, phase[t]))
    /\ pc' = [pc EXCEPT ![t] = "grf_draw"]
    /\ overlapped' = Overlap(t)
    /\ UNCHANGED <<threads, subject, cur, phase, loc, heap, inp, ret, chain, entry,
                   written, ref>>
    /\ UNCHANGED lossVars

\* np.asarray([flow] * arr.shape[-1]).transpose(1, 2, 0) needs a 2-D field
StackAccepts(shape) == Len(FieldShape(shape)) = 2

\* transform.gaussian_random_field draws one value per position; then
\* lines 131-132 (137-138, 143-144) divide the field by its maximum and
\* repeat it along the last axis
GrfDraw(t) ==
    /\ pc[t] = "grf_draw"
    /\ LET fs == FieldShape(cur[t].shape)
           n == Prod(fs)
           st == Stream(rng, n)
           field == [ij \in Indices(fs) |-> Normal(st[1 + Flat(fs, ij)])]
           max == CHOOSE m \in {field[ij] : ij \in Indices(fs)} :
                      \A ij \in Indices(fs) : field[ij] <= m
           flow == [ij \in Indices(fs) |-> Quot(field[ij], max)]
       IN  /\ Draw(t, n)
           /\ IF ~StackAccepts(cur[t].shape)
              THEN /\ Complete(t, Raise(TransposeError), heap[t])
                   /\ UNCHANGED <<loc, phase>>
              ELSE /\ loc' = [loc EXCEPT ![t].flows = Append(@, flow)]
                   /\ phase' = [phase EXCEPT ![t] =
                                   CASE phase[t] = "x" -> "y"
                                     [] phase[t] = "y" -> "z"
                                     [] phase[t] = "z" -> "top"]
                   /\ pc' = [pc EXCEPT ![t] =
                                IF phase[t] = "z" THEN "df_finish" ELSE "grf_seed"]
                   /\ UNCHANGED <<ret, ref>>
    /\ overlapped' = Overlap(t)
    /\ UNCHANGED <<threads, subject, cur, heap, inp, chain, entry, written>>
    /\ UNCHANGED lossVars

\* np.asarray(np.meshgrid(*ranges)).transpose(0, 2, 1, 3) needs three ranges
GridAccepts(shape) == Len(shape) = 3

\* line 146 left out: the field is not scaled by max_displacement
Displacement_Unscaled(flows, m, d, idx) == flows[d][<<idx[1], idx[2]>>]

\* lines 145-146: the field of direction d at voxel idx, repeated along the
\* last axis and scaled by max_displacement
Displacement(flows, m, d, idx) ==
    <<m * flows[d][<<idx[1], idx[2]>>][1], flows[d][<<idx[1], idx[2]>>][2]>>

\* the meshgrid taken as it comes, its first two axes not transposed back
Locs_Untransposed(shape, flows, m) ==
    [idx \in Indices(shape) |->
        [d \in 1..3 |->
            LET q == Displacement(flows, m, d, idx)
                g == CASE d = 1 -> idx[2]
                       [] d = 2 -> idx[1]
                       [] OTHER -> idx[3]
            IN  <<g * q[2] + q[1], q[2]>>]]

\* lines 147-149: the identity grid (the meshgrid of the three ranges,
\* transposed back to the axes of arr) plus the displacement
Locs(shape, flows, m) ==
    [idx \in Indices(shape) |->
        [d \in 1..3 |->
            LET q == Displacement(flows, m, d, idx)
            IN  <<idx[d] * q[2] + q[1], q[2]>>]]

\* what lines 145-152 return or raise, and the heap they leave
DeformationOutcome(t) ==
    IF ~GridAccepts(inp[t].shape)
    THEN [ret |-> Raise(TransposeError), heap |-> heap[t]]
    ELSE IF ~OrderSupported(cur[t].order)
    THEN [ret |-> Raise(SplineOrderError), heap |-> heap[t]]
    ELSE LET locs == [known |-> TRUE, shape |-> <<3>> \o inp[t].shape,
                      at |-> Locs(inp[t].shape, loc[t].flows,
                                  cur[t].max_displacement)]
             out == map_coordinates(heap[t], inp[t], locs, cur[t].order)
         IN  [ret |-> ReturnArray(WholeView(Len(heap[t]) + 1, inp[t].shape)),
              heap |-> Append(heap[t], out)]

\* lines 145-152
DfFinish(t) ==
    /\ pc[t] = "df_finish"
    /\ LET o == DeformationOutcome(t)
       IN  /\ heap' = [heap EXCEPT ![t] = o.heap]
           /\ Complete(t, o.ret, o.heap)
    /\ overlapped' = Overlap(t)
    /\ UNCHANGED <<rng, threads, subject, cur, phase, loc, inp, chain, log, entry,
                   written>>
    /\ UNCHANGED lossVars

(***************************************************************************)
(* The caller: it may write to the array it got back, pass it to the same  *)
(* call again, or drop it.                                                 *)
(***************************************************************************)
\* the caller sets one element of the returned array to 0
WriteRet(t) ==
    /\ t = MainThread
    /\ pc[t] = "done"
    /\ ret[t].kind = "array"
    /\ ~written
    /\ \E idx \in Indices(ret[t].arr.shape) :
         heap' = [heap EXCEPT ![t][ret[t].arr.buf].cells[BufIndex(ret[t].arr, idx)] =
                     0]
    /\ written' = TRUE
    /\ UNCHANGED <<rng, threads, subject, pc, cur, phase, loc, inp, ret, chain, log,
                   entry, overlapped, ref>>
    /\ UNCHANGED lossVars

\* flip applied to the result of flip, with the same axis and seed
Again(t) ==
    /\ pc[t] = "done"
    /\ cur[t].op = "flip"
    /\ ret[t].kind = "array"
    /\ ~written
    /\ chain[t] < MaxChain
    /\ pc' = [pc EXCEPT ![t] = EntryPoint(cur[t].op)]
    /\ phase' = [phase EXCEPT ![t] = EntryPhase(cur[t].op)]
    /\ inp' = [inp EXCEPT ![t] = ret[t].arr]
    /\ entry' = [entry EXCEPT ![t] =
                    [input |-> Values(heap[t], ret[t].arr), rerun |-> FALSE]]
    /\ loc' = [loc EXCEPT ![t] = NoLocals]
    /\ ret' = [ret EXCEPT ![t] = NoRet]
    /\ chain' = [chain EXCEPT ![t] = @ + 1]
    /\ log' = [log EXCEPT ![t] = <<>>]
    /\ overlapped' = IF t = MainThread THEN FALSE ELSE Overlap(t)
    /\ UNCHANGED <<rng, threads, subject, cur, heap, written, ref>>
    /\ UNCHANGED lossVars

Finish(t) ==
    /\ pc[t] = "done"
    /\ pc' = [pc EXCEPT ![t] = "idle"]
    /\ cur' = [cur EXCEPT ![t] = NoCall]
    /\ phase' = [phase EXCEPT ![t] = "top"]
    /\ loc' = [loc EXCEPT ![t] = NoLocals]
    /\ heap' = [heap EXCEPT ![t] = <<>>]
    /\ inp' = [inp EXCEPT ![t] = NoArr]
    /\ ret' = [ret EXCEPT ![t] = NoRet]
    /\ chain' = [chain EXCEPT ![t] = 0]
    /\ log' = [log EXCEPT ![t] = <<>>]
    /\ entry' = [entry EXCEPT ![t] = NoEntry]
    /\ overlapped' = IF t = MainThread THEN FALSE ELSE overlapped
    /\ written' = IF t = MainThread THEN FALSE ELSE written
    /\ UNCHANGED <<rng, threads, subject, ref>>
    /\ UNCHANGED lossVars

(***************************************************************************)
(* Specifications: one thread making call after call, and two threads      *)
(* whose np.random steps interleave.                                       *)
(***************************************************************************)
Step(t) ==
    \/ Call(t)
    \/ RgSeed(t)
    \/ RgRaise(t)
    \/ RgUniform(t)
    \/ RgSign(t)
    \/ RgSeed2(t)
    \/ RgLognormal(t)
    \/ AfSeed(t)
    \/ AfZoom(t)
    \/ AfFinish(t)
    \/ FlipSeed(t)
    \/ FlipDraw(t)
    \/ FlipExplicit(t)
    \/ GrfSeed(t)
    \/ GrfDraw(t)
    \/ DfFinish(t)
    \/ WriteRet(t)
    \/ Again(t)
    \/ Finish(t)

Next == \E t \in Threads : Step(t)

Spec == Init /\ [][Next]_vars

\* two threads, each call supplying its own seed
InitThreads ==
    /\ Start
    /\ Constructed
    /\ threads = Threads
    /\ subject.seed # NoSeed
    /\ subject.order = DefaultOrder
    /\ Len(subject.shape) \in {0, 3}

SpecThreads == InitThreads /\ [][Next]_vars

(***************************************************************************)
(* The losses: the trainer assigns layer_outputs and calls a loss, one     *)
(* call at a time.                                                         *)
(***************************************************************************)
LossIdle == lossPc = "idle"
LossDone == lossPc = "done"

\* the first label of the __call__ of each loss
LossEntry(o) ==
    CASE o = DecodeLossObj -> "decode"
      [] o = AutoEncode -> "vae"
      [] o = Classification -> "cls"

\* an assignment to the layer_outputs attribute of a loss, made between calls
SetLayerOutputs ==
    /\ LossIdle
    /\ \E o \in Losses, v \in LayerOutputs :
           layer_outputs' = [layer_outputs EXCEPT ![o] = v]
    /\ UNCHANGED <<called, lossPc, before, entered, outcome>>
    /\ UNCHANGED augmentationVars

\* loss(x_sample, x, y) on one of the three objects
LossCall ==
    /\ LossIdle
    /\ \E o \in Losses :
           /\ called' = o
           /\ lossPc' = LossEntry(o)
    /\ before' = layer_outputs
    /\ entered' = {}
    /\ outcome' = NoOutcome
    /\ UNCHANGED layer_outputs
    /\ UNCHANGED augmentationVars

\* the call ends with outcome r
LossEnds(r) ==
    /\ lossPc' = "done"
    /\ outcome' = r

\* DecodeLoss.__call__: the guard on its own layer_outputs
DlRaise ==
    /\ lossPc = "decode"
    /\ layer_outputs[DecodeLossObj] = None
    /\ LossEnds(LossRaise(MissingLayerOutputs, DecodeLossObj))
    /\ UNCHANGED <<layer_outputs, called, before, entered>>
    /\ UNCHANGED augmentationVars

\* sub.layer_outputs = self.layer_outputs
Copy_Dropped(lo, sub) == lo

Copy(lo, sub) == [lo EXCEPT ![sub] = lo[DecodeLossObj]]

\* self.auto_encode.layer_outputs = self.layer_outputs
DlCopyAutoEncode ==
    /\ lossPc = "decode"
    /\ layer_outputs[DecodeLossObj] # None
    /\ layer_outputs' = Copy(layer_outputs, AutoEncode)
    /\ lossPc' = "decode_copy"
    /\ UNCHANGED <<called, before, entered, outcome>>
    /\ UNCHANGED augmentationVars

\* self.classification.layer_outputs = self.layer_outputs, then the call of
\* self.auto_encode
DlCopyClassification ==
    /\ lossPc = "decode_copy"
    /\ layer_outputs' = Copy(layer_outputs, Classification)
    /\ lossPc' = "vae"
    /\ UNCHANGED <<called, before, entered, outcome>>
    /\ UNCHANGED augmentationVars

\* where a call goes once VAELoss.__call__ has returned: DecodeLoss calls
\* self.classification next, a direct call is over
AfterVae == IF called = DecodeLossObj THEN "cls" ELSE "done"

\* VAELoss.__call__: the guard on its layer_outputs
VaeRaise ==
    /\ lossPc = "vae"
    /\ layer_outputs[AutoEncode] = None
    /\ entered' = entered \cup {AutoEncode}
    /\ LossEnds(LossRaise(MissingLayerOutputs, AutoEncode))
    /\ UNCHANGED <<layer_outputs, called, before>>
    /\ UNCHANGED augmentationVars

\* VAELoss.__call__: layer_outputs lacks z_mu or z_var
VaeKeyError ==
    /\ lossPc = "vae"
    /\ layer_outputs[AutoEncode] # None
    /\ ~(VAEKeys \subseteq layer_outputs[AutoEncode].keys)
    /\ entered' = entered \cup {AutoEncode}
    /\ LossEnds(LossRaise(MissingKey, AutoEncode))
    /\ UNCHANGED <<layer_outputs, called, before>>
    /\ UNCHANGED augmentationVars

\* VAELoss.__call__: the reconstruction and KL losses are computed
VaeLoss ==
    /\ lossPc = "vae"
    /\ layer_outputs[AutoEncode] # None
    /\ VAEKeys \subseteq layer_outputs[AutoEncode].keys
    /\ entered' = entered \cup {AutoEncode}
    /\ lossPc' = AfterVae
    /\ outcome' = IF called = DecodeLossObj THEN outcome ELSE LossValue(AutoEncode)
    /\ UNCHANGED <<layer_outputs, called, before>>
    /\ UNCHANGED augmentationVars

\* ClassificationLoss.__call__: the guard on its layer_outputs
ClsRaise ==
    /\ lossPc = "cls"
    /\ layer_outputs[Classification] = None
    /\ entered' = entered \cup {Classification}
    /\ LossEnds(LossRaise(MissingLayerOutputs, Classification))
    /\ UNCHANGED <<layer_outputs, called, before>>
    /\ UNCHANGED augmentationVars

\* ClassificationLoss.__call__: layer_outputs lacks logits
ClsKeyError ==
    /\ lossPc = "cls"
    /\ layer_outputs[Classification] # None
    /\ ~(ClassificationKeys \subseteq layer_outputs[Classification].keys)
    /\ entered' = entered \cup {Classification}
    /\ LossEnds(LossRaise(MissingKey, Classification))
    /\ UNCHANGED <<layer_outputs, called, before>>
    /\ UNCHANGED augmentationVars

\* ClassificationLoss.__call__: the cross entropy is computed; under
\* DecodeLoss the weighted sum is then returned
ClsLoss ==
    /\ lossPc = "cls"
    /\ layer_outputs[Classification] # None
    /\ ClassificationKeys \subseteq layer_outputs[Classification].keys
    /\ entered' = entered \cup {Classification}
    /\ LossEnds(LossValue(called))
    /\ UNCHANGED <<layer_outputs, called, before>>
    /\ UNCHANGED augmentationVars

\* the trainer has taken the outcome; the attributes stay as the call left
\* them
LossReturn ==
    /\ LossDone
    /\ called' = ""
    /\ lossPc' = "idle"
    /\ before' = [o \in Losses |-> None]
    /\ entered' = {}
    /\ outcome' = NoOutcome
    /\ UNCHANGED layer_outputs
    /\ UNCHANGED augmentationVars

NextLoss ==
    \/ SetLayerOutputs
    \/ LossCall
    \/ DlRaise
    \/ DlCopyAutoEncode
    \/ DlCopyClassification
    \/ VaeRaise
    \/ VaeKeyError
    \/ VaeLoss
    \/ ClsRaise
    \/ ClsKeyError
    \/ ClsLoss
    \/ LossReturn

\* the losses alone: no augmentation call is made
InitLoss ==
    /\ Constructed
    /\ rng = 0
    /\ threads = {}
    /\ subject = NoCall
    /\ pc = [t \in Threads |-> "idle"]
    /\ cur = [t \in Threads |-> NoCall]
    /\ phase = [t \in Threads |-> "top"]
    /\ loc = [t \in Threads |-> NoLocals]
    /\ heap = [t \in Threads |-> <<>>]
    /\ inp = [t \in Threads |-> NoArr]
    /\ ret = [t \in Threads |-> NoRet]
    /\ chain = [t \in Threads |-> 0]
    /\ log = [t \in Threads |-> <<>>]
    /\ entry = [t \in Threads |-> NoEntry]
    /\ overlapped = FALSE
    /\ written = FALSE
    /\ ref = NoObserved

SpecLoss == InitLoss /\ [][NextLoss]_vars

(***************************************************************************)
(* Properties.                                                             *)
(***************************************************************************)
\* a run of the subject by the main thread has returned or raised, and the
\* caller has not touched the result
SubjectDone ==
    /\ pc[MainThread] = "done"
    /\ cur[MainThread] = subject
    /\ chain[MainThread] = 1
    /\ ~written

SubjectObserved == Observed(heap[MainThread], ret[MainThread])

\* the entry points whose draws the call's own seed governs
SeededEntryPoint(c) ==
    /\ c.seed # NoSeed
    /\ \/ c.op \in {"affine", "random_generator"}
       \/ c.op = "flip" /\ c.axis = NoAxis

\* C1: a seeded call of affine, flip (axis omitted) or random_generator that
\* runs while another thread makes its own seeded call returns exactly what
\* it returns when it runs alone with that seed.
C1_ConcurrentCallsIsolated ==
    (SubjectDone /\ SeededEntryPoint(subject) /\ overlapped /\ ref # NoObserved)
        => SubjectObserved = ref

\* C2: in one thread, a seeded call of affine, flip (axis omitted) or
\* random_generator returns the same output every time, whatever seeded or
\* unseeded calls and draws came before it.
C2_SeedDeterminism ==
    (SubjectDone /\ SeededEntryPoint(subject) /\ ~overlapped /\ ref # NoObserved)
        => SubjectObserved = ref

\* a later run of a seeded call has returned the values of its first run
C2_Witness ==
    /\ SubjectDone
    /\ SeededEntryPoint(subject)
    /\ entry[MainThread].rerun
    /\ ret[MainThread].kind = "values"
    /\ Len(ret[MainThread].vals) > 0
    /\ SubjectObserved = ref

\* thread t's call has returned or raised
Done(t) == pc[t] = "done"

Rank(t) == Len(cur[t].shape)

\* C3: flip applied twice with the same seed (axis omitted), or twice with
\* the same explicit axis, gives back the original array exactly.
C3_FlipInvolution ==
    \A t \in Threads :
        (/\ Done(t)
         /\ cur[t].op = "flip"
         /\ chain[t] % 2 = 0
         /\ ~written
         /\ cur[t].seed # NoSeed \/ cur[t].axis # NoAxis)
            => /\ ret[t].kind = "array"
               /\ Values(heap[t], ret[t].arr) = Ramp(cur[t].shape)

\* the second flip of a seeded flip with the axis omitted has returned, and
\* its input was the array reversed along an axis of extent above one
C3_Witness ==
    /\ Done(MainThread)
    /\ cur[MainThread].op = "flip"
    /\ chain[MainThread] = 2
    /\ cur[MainThread].axis = NoAxis
    /\ cur[MainThread].seed # NoSeed
    /\ \E k \in 1..Rank(MainThread) :
          inp[MainThread].rev[k] /\ cur[MainThread].shape[k] > 1
    /\ entry[MainThread].input # Ramp(cur[MainThread].shape)
    /\ ret[MainThread].kind = "array"

AffineOrDeformation(t) ==
    \/ cur[t].op = "affine" /\ RgSupported(cur[t].dist)
    \/ cur[t].op = "deformation"

\* C4 as stated: for every array and every spline order, affine and
\* deformation return an array of the shape of the input.
C4_ShapeAlwaysPreserved ==
    \A t \in Threads :
        (Done(t) /\ AffineOrDeformation(t))
            => ret[t].kind = "array" /\ ret[t].arr.shape = cur[t].shape

\* C4 amended: whenever affine or deformation returns an array, its shape is
\* the shape of the input; they return one only for a 3-D array and a spline
\* order in [0, 5], and raise otherwise.
C4_ShapePreservedWhenReturned ==
    \A t \in Threads :
        (Done(t) /\ AffineOrDeformation(t))
            => IF Rank(t) = 3 /\ OrderSupported(cur[t].order)
               THEN ret[t].kind = "array" =>
                        /\ ret[t].arr.shape = cur[t].shape
                        /\ heap[t][ret[t].arr.buf].shape = cur[t].shape
                        /\ DOMAIN Values(heap[t], ret[t].arr) = Indices(cur[t].shape)
               ELSE ret[t].kind = "error"

\* affine has returned an array of more than one cell
C4_Witness ==
    /\ Done(MainThread)
    /\ cur[MainThread].op = "affine"
    /\ ret[MainThread].kind = "array"
    /\ Prod(ret[MainThread].arr.shape) > 1
    /\ ret[MainThread].arr.shape = cur[MainThread].shape

AffineValidButRank(t) ==
    /\ cur[t].op = "affine"
    /\ RgSupported(cur[t].dist)
    /\ OrderSupported(cur[t].order)

\* C5 as stated: affine accepts exactly the ranks 2 and 3, and an array of
\* any other rank fails with the rank error and yields no array.
C5_AcceptsRank2And3 ==
    \A t \in Threads :
        (Done(t) /\ AffineValidButRank(t))
            => IF Rank(t) \in {2, 3}
               THEN ret[t].kind = "array"
               ELSE ret[t] = Raise(EulerAnglesError)

\* C5 amended: the only rank affine accepts is 3; an array of any other
\* rank, two included, fails with the error of the rotation construction and
\* yields no array.
C5_AcceptsOnlyRank3 ==
    \A t \in Threads :
        (Done(t) /\ cur[t].op = "affine" /\ RgSupported(cur[t].dist))
            => /\ ret[t].kind = "array" => Rank(t) = 3
               /\ Rank(t) # 3 =>
                    /\ ret[t] = Raise(EulerAnglesError)
                    /\ Len(heap[t]) = 1

\* affine on a 2-D array has raised the error of the rotation construction
C5_Witness ==
    /\ Done(MainThread)
    /\ AffineValidButRank(MainThread)
    /\ Rank(MainThread) = 2
    /\ ret[MainThread] = Raise(EulerAnglesError)

\* C6 as stated: affine with a spline order outside [0, 5] fails with the
\* invalid-order error.
C6_BadOrderRaisesOrderError ==
    \A t \in Threads :
        (Done(t) /\ cur[t].op = "affine" /\ ~OrderSupported(cur[t].order))
            => ret[t] = Raise(SplineOrderError)

\* C6 amended: affine with a spline order outside [0, 5] never returns an
\* array and never clamps the order; it raises the invalid-order error when
\* dist is supported and the array is 3-D, and otherwise the error of dist
\* or of the rank, which are detected first.
C6_BadOrderFails ==
    \A t \in Threads :
        (Done(t) /\ cur[t].op = "affine" /\ ~OrderSupported(cur[t].order))
            => /\ ret[t].kind = "error"
               /\ ret[t].arr = NoArr
               /\ Len(heap[t]) = 1
               /\ ret[t].err =
                    IF ~RgSupported(cur[t].dist) THEN UnsupportedDistribution
                    ELSE IF Rank(t) # 3 THEN EulerAnglesError
                    ELSE SplineOrderError

\* affine on a 3-D array with a supported dist and an order outside [0, 5]
\* has raised the invalid-order error
C6_Witness ==
    /\ Done(MainThread)
    /\ cur[MainThread].op = "affine"
    /\ ~OrderSupported(cur[MainThread].order)
    /\ Rank(MainThread) = 3
    /\ ret[MainThread] = Raise(SplineOrderError)

\* C7: random_generator with a dist other than "uniform" or "lognormal"
\* raises the unsupported-distribution error and returns no values.
C7_UnsupportedDistributionRaises ==
    \A t \in Threads :
        (/\ Done(t)
         /\ cur[t].op = "random_generator"
         /\ cur[t].dist \notin {"uniform", "lognormal"})
            => /\ ret[t].kind = "error"
               /\ ret[t].err = UnsupportedDistribution
               /\ ret[t].vals = <<>>

\* random_generator with dist "bogus" and a positive size has raised
C7_Witness ==
    /\ Done(MainThread)
    /\ cur[MainThread].op = "random_generator"
    /\ cur[MainThread].dist = "bogus"
    /\ cur[MainThread].size > 0
    /\ ret[MainThread].kind = "error"

\* the number of reseeds and draws one random_generator call makes
RgEvents(dist) == IF dist = "uniform" THEN 2 ELSE 4

\* C8: in a seeded affine, the draws of the rotations and the draws of the
\* translations do not start from the same state of the random source.
C8_IndependentlySeeded ==
    \A t \in Threads :
        (/\ Done(t)
         /\ cur[t].op = "affine"
         /\ cur[t].seed # NoSeed
         /\ RgSupported(cur[t].dist)
         /\ ~overlapped)
            => log[t][2].x # log[t][2 + RgEvents(cur[t].dist)].x

\* C9: after affine, flip or deformation has returned, the input array holds
\* the values it held before the call, also after the caller has written to
\* the returned array.
C9_InputNeverChanges ==
    \A t \in Threads :
        (/\ Done(t)
         /\ cur[t].op \in {"affine", "flip", "deformation"}
         /\ ret[t].kind = "array")
            => Values(heap[t], inp[t]) = entry[t].input

\* C10: all operations are pure: no step of a call to affine, flip,
\* deformation or random_generator changes the state of the process-wide
\* random source, so that its state after a call is its state before it.
C10_Pure == [][rng' = rng]_vars

\* the fraction v = <<num, den>>, den > 0, lies in [low, high]
Within(v, low, high) == low * v[2] <= v[1] /\ v[1] <= high * v[2]

\* C11: for every interval (low, high) with low <= high and every size n,
\* random_generator(interval, n, dist="uniform") returns exactly n values
\* and every one of them lies in [low, high].
C11_UniformInRange ==
    \A t \in Threads :
        (/\ Done(t)
         /\ cur[t].op = "random_generator"
         /\ cur[t].dist = "uniform"
         /\ cur[t].interval[1] <= cur[t].interval[2])
            => /\ ret[t].kind = "values"
               /\ Len(ret[t].vals) = cur[t].size
               /\ \A k \in 1..Len(ret[t].vals) :
                     Within(ret[t].vals[k], cur[t].interval[1], cur[t].interval[2])

\* random_generator has returned two or more uniform values of an interval
\* with low < 0 < high, one of them not an end of the interval
C11_Witness ==
    /\ Done(MainThread)
    /\ cur[MainThread].op = "random_generator"
    /\ cur[MainThread].dist = "uniform"
    /\ cur[MainThread].interval[1] < 0
    /\ cur[MainThread].size >= 2
    /\ Len(ret[MainThread].vals) = cur[MainThread].size
    /\ \E k \in 1..Len(ret[MainThread].vals) :
          /\ ret[MainThread].vals[k][1] > cur[MainThread].interval[1] * ret[MainThread].vals[k][2]
          /\ ret[MainThread].vals[k][1] < cur[MainThread].interval[2] * ret[MainThread].vals[k][2]

\* index idx of an array of the given shape, mirrored along axis a
Mirrored(shape, idx, a) == [idx EXCEPT ![a + 1] = shape[a + 1] - 1 - idx[a + 1]]

\* thread t's flip returned its input reversed along axis a and no other
FlippedAlong(t, a) ==
    /\ ret[t].kind = "array"
    /\ ret[t].arr.shape = inp[t].shape
    /\ \A k \in 1..Rank(t) : (ret[t].arr.rev[k] # inp[t].rev[k]) <=> (k = a + 1)
    /\ \A idx \in Indices(cur[t].shape) :
          Values(heap[t], ret[t].arr)[idx] =
              entry[t].input[Mirrored(cur[t].shape, idx, a)]

\* C12: flip(A, axis=a) holds at position i along axis a the value A holds at
\* position n - 1 - i, all other indices equal; with the axis omitted the
\* flipped axis is one index of [0, A.ndim) and exactly that axis is reversed.
C12_FlipMirrors ==
    \A t \in Threads :
        (Done(t) /\ cur[t].op = "flip" /\ ~written)
            => IF cur[t].axis = NoAxis
               THEN \E a \in 0..(Rank(t) - 1) : FlippedAlong(t, a)
               ELSE ValidAxis(inp[t], cur[t].axis)
                       => FlippedAlong(t, NormalizedAxis(inp[t], cur[t].axis))

\* flip with the axis omitted has reversed an axis of extent above one, and
\* the result differs from the input
C12_Witness ==
    /\ Done(MainThread)
    /\ cur[MainThread].op = "flip"
    /\ cur[MainThread].axis = NoAxis
    /\ chain[MainThread] = 1
    /\ ~written
    /\ \E a \in 0..(Rank(MainThread) - 1) :
          /\ cur[MainThread].shape[a + 1] > 1
          /\ FlippedAlong(MainThread, a)
    /\ Values(heap[MainThread], ret[MainThread].arr) # entry[MainThread].input

\* the sampling coordinates of the array thread t's deformation returned:
\* per voxel, one fraction per direction
SamplingCoordinates(t) == heap[t][ret[t].arr.buf].interp[3].at

\* thread t's deformation has returned an array
Deformed(t) ==
    /\ Done(t)
    /\ cur[t].op = "deformation"
    /\ ret[t].kind = "array"
    /\ ~written

Abs(x) == IF x < 0 THEN 0 - x ELSE x

\* C13: in deformation, the displacement added to every sampling coordinate
\* is bounded in magnitude by max_displacement along each axis, for every
\* random field the generator can return and every voxel.
C13_DisplacementBounded ==
    \A t \in Threads :
        Deformed(t) =>
            \A idx \in Indices(cur[t].shape) : \A d \in 1..3 :
                LET c == SamplingCoordinates(t)[idx][d]
                IN  Abs(c[1] - idx[d] * c[2]) <= cur[t].max_displacement * c[2]

\* the identity coordinate grid: voxel idx is sampled at idx
IdentityGrid(shape) == [idx \in Indices(shape) |-> [d \in 1..3 |-> <<idx[d], 1>>]]

\* the coordinates c and e, fractions per voxel and direction, are equal
SameCoordinates(shape, c, e) ==
    \A idx \in Indices(shape) : \A d \in 1..3 :
        c[idx][d][1] * e[idx][d][2] = e[idx][d][1] * c[idx][d][2]

\* C14: deformation(A, max_displacement=0) samples A at exactly the identity
\* coordinate grid, for every 3-D array A, every seed and every random field
\* drawn, so the returned array equals A.
C14_ZeroDisplacementIsIdentity ==
    \A t \in Threads :
        (/\ Done(t)
         /\ cur[t].op = "deformation"
         /\ cur[t].max_displacement = 0
         /\ Rank(t) = 3
         /\ OrderSupported(cur[t].order)
         /\ ~written)
            => /\ ret[t].kind = "array"
               /\ SameCoordinates(cur[t].shape, SamplingCoordinates(t),
                                  IdentityGrid(cur[t].shape))
               /\ Values(heap[t], ret[t].arr) = entry[t].input

\* deformation with max_displacement=0 has returned an array of more than
\* one cell, equal to its input, and the fields drawn were not all equal
C14_Witness ==
    /\ Deformed(MainThread)
    /\ cur[MainThread].max_displacement = 0
    /\ Prod(cur[MainThread].shape) > 1
    /\ loc[MainThread].flows[1] # loc[MainThread].flows[2]
    /\ Values(heap[MainThread], ret[MainThread].arr) = entry[MainThread].input

\* the seeds of the reseeds thread t's call has made, in order
SeedsUsed(t) ==
    LET l == log[t]
        F[i \in 0..Len(l)] ==
            IF i = 0 THEN <<>>
            ELSE IF l[i].ev = "seed" THEN Append(F[i - 1], l[i].x) ELSE F[i - 1]
    IN  F[Len(l)]

\* C15: in deformation called with seed s, the three random fields for x, y
\* and z are generated with the seeds s, s + 2 and s + 4 in that order;
\* called with no seed, all three field generations receive no seed.
C15_FieldSeeds ==
    \A t \in Threads :
        cur[t].op = "deformation" =>
            /\ \A k \in 1..Len(SeedsUsed(t)) :
                  SeedsUsed(t)[k] = IF cur[t].seed = NoSeed THEN NoSeed
                                    ELSE cur[t].seed + 2 * (k - 1)
            /\ (Done(t) /\ ret[t].kind = "array") => Len(SeedsUsed(t)) = 3

\* a seeded deformation has returned, its fields generated with s, s+2, s+4
C15_Witness ==
    /\ Deformed(MainThread)
    /\ cur[MainThread].seed # NoSeed
    /\ SeedsUsed(MainThread) =
          <<cur[MainThread].seed, cur[MainThread].seed + 2, cur[MainThread].seed + 4>>

\* the normalised field of direction d that thread t's deformation drew, at
\* position (i, j)
FieldAt(t, d, i, j) == loc[t].flows[d][<<i, j>>]

\* C16: in deformation on a 3-D array, the sampling coordinate along
\* direction d at voxel (i, j, k) is the d-th index of (i, j, k) plus
\* max_displacement times the normalised d-th 2-D field at (i, j): the
\* displacement does not depend on k and the undisplaced grid is the identity.
C16_SamplingCoordinates ==
    \A t \in Threads :
        Deformed(t) =>
            \A idx \in Indices(cur[t].shape) : \A d \in 1..3 :
                LET c == SamplingCoordinates(t)[idx][d]
                    f == FieldAt(t, d, idx[1], idx[2])
                    m == cur[t].max_displacement
                IN  /\ c[1] * f[2] = (idx[d] * f[2] + m * f[1]) * c[2]
                    /\ \A k \in 0..(cur[t].shape[3] - 1) :
                          LET e == SamplingCoordinates(t)[<<idx[1], idx[2], k>>][d]
                          IN  (c[1] - idx[d] * c[2]) * e[2] =
                                  (e[1] - (<<idx[1], idx[2], k>>)[d] * e[2]) * c[2]

\* deformation with a positive max_displacement has returned an array with
\* more than one voxel along the depth axis, some voxel displaced
C16_Witness ==
    /\ Deformed(MainThread)
    /\ cur[MainThread].max_displacement > 0
    /\ cur[MainThread].shape[3] > 1
    /\ ~SameCoordinates(cur[MainThread].shape, SamplingCoordinates(MainThread),
                        IdentityGrid(cur[MainThread].shape))

\* C17: whenever a seed is provided, every random draw made by
\* random_generator and by affine (uniform draw, lognormal sign draw,
\* lognormal magnitude draw, zoom draw) is immediately preceded by a reseed of
\* the random source with that seed, with no other draw between the two.
C17_ReseedBeforeEachDraw ==
    \A t \in Threads :
        (cur[t].op \in {"affine", "random_generator"} /\ cur[t].seed # NoSeed)
            => \A i \in 1..Len(log[t]) :
                  log[t][i].ev = "draw" =>
                      /\ i > 1
                      /\ log[t][i - 1] = SeedEvent(cur[t].seed)
                      /\ log[t][i].x \in SeedStates(cur[t].seed)

\* a seeded affine with dist="lognormal" has returned an array after its
\* five reseeds and five draws
C17_Witness ==
    /\ Done(MainThread)
    /\ cur[MainThread].op = "affine"
    /\ cur[MainThread].dist = "lognormal"
    /\ cur[MainThread].seed # NoSeed
    /\ ret[MainThread].kind = "array"
    /\ Len(log[MainThread]) = 10
    /\ \A i \in 1..5 : log[MainThread][2 * i].ev = "draw"

\* the log-normal values thread t's random_generator call drew last
LognormalDrawn(t) ==
    LET st == Stream(log[t][Len(log[t])].x, cur[t].size)
    IN  [k \in 1..cur[t].size |-> Lognormal(st[k])]

RejectedCall(t) ==
    /\ cur[t].op \in {"random_generator", "affine"}
    /\ cur[t].dist \notin {"uniform", "lognormal"}

\* C19: when random_generator or affine is called with an unsupported
\* distribution name, the error is raised before any reseed or draw: no step
\* of the call, from its start to the error, changes the state of the
\* process-wide random source.
C19_ErrorBeforeReseed ==
    [][\A t \in Threads :
          (RejectedCall(t)' /\ pc'[t] # pc[t])
              => /\ rng' = rng
                 /\ log'[t] = <<>>
                 /\ Done(t)' => ret'[t] = Raise(UnsupportedDistribution)]_vars

\* affine called with dist="bogus" and a seed has raised, with no reseed and
\* no draw made
C19_Witness ==
    /\ Done(MainThread)
    /\ cur[MainThread].op = "affine"
    /\ cur[MainThread].dist = "bogus"
    /\ cur[MainThread].seed # NoSeed
    /\ ret[MainThread] = Raise(UnsupportedDistribution)
    /\ log[MainThread] = <<>>

\* C20: flip called with an explicit axis neither reseeds nor draws from the
\* random source, and its result is the same for every value of seed; only
\* when axis is omitted is the random source reseeded (with seed) and then
\* read exactly once.
C20_FlipRandomSourceUse ==
    \A t \in Threads :
        (Done(t) /\ cur[t].op = "flip" /\ ~written)
            => IF cur[t].axis # NoAxis
               THEN /\ log[t] = <<>>
                    /\ IF ValidAxis(inp[t], cur[t].axis)
                       THEN FlippedAlong(t, NormalizedAxis(inp[t], cur[t].axis))
                       ELSE ret[t] = Raise(AxisError)
               ELSE /\ Len(log[t]) = 2
                    /\ log[t][1] = SeedEvent(cur[t].seed)
                    /\ log[t][2].ev = "draw"
                    /\ log[t][2].x \in SeedStates(cur[t].seed)
                    /\ rng = NextRng(log[t][2].x)

\* flip with an explicit valid axis and a seed has returned an array while
\* the random source is in a state the seed does not give
C20_Witness ==
    /\ Done(MainThread)
    /\ cur[MainThread].op = "flip"
    /\ cur[MainThread].axis # NoAxis
    /\ cur[MainThread].seed # NoSeed
    /\ ret[MainThread].kind = "array"
    /\ log[MainThread] = <<>>
    /\ rng \notin SeedStates(cur[MainThread].seed)

\* C21: a call of DecodeLoss while its layer_outputs is None raises the
\* missing-layer_outputs ValueError without entering either sub-loss and
\* without touching their layer_outputs; a call with layer_outputs set has
\* copied that same layer_outputs to both the VAELoss and the
\* ClassificationLoss before it enters either of them, so the
\* missing-layer_outputs error never comes from a sub-loss reached through
\* DecodeLoss, whatever their layer_outputs were before.
C21_DecodeLossNeedsLayerOutputs ==
    called = DecodeLossObj =>
        /\ layer_outputs[DecodeLossObj] = before[DecodeLossObj]
        /\ (LossDone /\ before[DecodeLossObj] = None)
               => /\ outcome = LossRaise(MissingLayerOutputs, DecodeLossObj)
                  /\ entered = {}
                  /\ layer_outputs = before
        /\ (entered # {} \/ (LossDone /\ before[DecodeLossObj] # None))
               => /\ before[DecodeLossObj] # None
                  /\ \A s \in SubLosses : layer_outputs[s] = before[DecodeLossObj]
        /\ ~(outcome.err = MissingLayerOutputs /\ outcome.by \in SubLosses)

\* a call of DecodeLoss has returned the loss although the layer_outputs of
\* both sub-losses were None when it started: the sub-losses now hold the
\* dictionary of the DecodeLoss
C21_Witness ==
    /\ called = DecodeLossObj
    /\ LossDone
    /\ outcome = LossValue(DecodeLossObj)
    /\ entered = SubLosses
    /\ before[DecodeLossObj] = Dict(1, OutputKeys)
    /\ \A s \in SubLosses : before[s] = None
    /\ \A s \in SubLosses : layer_outputs[s] = Dict(1, OutputKeys)

=============================================================================
